---- MODULE Spec2Model ----
(***************************************************************************)
(* A model of replace.py: one run of main() over a directory tree.         *)
(*                                                                         *)
(* Text (file contents, the search and replacement strings, file and       *)
(* directory names) is a sequence of character codes, so that substring    *)
(* counting, replacement, suffix tests and lexicographic ordering are      *)
(* computed and not assumed.  A path is the sequence of its parts relative *)
(* to the search root.                                                     *)
(*                                                                         *)
(* The -q and -v flags only add or remove console lines; the console is    *)
(* modelled by the sequence "out" of the kinds of message whose presence   *)
(* matters (warnings, abort messages, per-file results, the summary).      *)
(***************************************************************************)
EXTENDS Integers, Sequences, FiniteSets, TLC

\* ------------------------------------------------------------------ bounds
MaxLen == 3      \* longest file content
MaxPat == 2      \* longest search / replacement string
MaxDepth == 2    \* directories above the search root
MaxFiles == 3    \* files in a generated tree

\* -------------------------------------------------------------- text, names
Alphabet == {97, 98}

StringsUpTo(n) == UNION {[1..k -> Alphabet] : k \in 0..n}

DotGitignore == <<46, 103, 105, 116, 105, 103, 110, 111, 114, 101>>

DotGit == <<46, 103, 105, 116>>

NameA == <<97>>

NameB == <<98>>

NameAdotB == <<97, 46, 98>>

Range(s) == {s[i] : i \in 1..Len(s)}

IsPrefix(s, t) == Len(s) <= Len(t) /\ SubSeq(t, 1, Len(s)) = s

\* str.__lt__ : code-point lexicographic order
StrLess(s, t) ==
  \E i \in 1..(Len(s) + 1) :
    /\ i <= Len(t)
    /\ SubSeq(s, 1, i - 1) = SubSeq(t, 1, i - 1)
    /\ (i = Len(s) + 1 \/ s[i] < t[i])

\* the same order on the "/"-joined text of a path (not what pathlib does)
RECURSIVE Join(_)
Join(p) == IF p = <<>> THEN <<>>
           ELSE IF Len(p) = 1 THEN p[1]
           ELSE p[1] \o <<47>> \o Join(Tail(p))

PathLessAsText(p, q) == StrLess(Join(p), Join(q))

\* PurePath.__lt__ : list comparison of the parts, each part compared as str
PathLess(p, q) ==
  \E i \in 1..(Len(p) + 1) :
    /\ i <= Len(q)
    /\ SubSeq(p, 1, i - 1) = SubSeq(q, 1, i - 1)
    /\ (i = Len(p) + 1 \/ StrLess(p[i], q[i]))

\* sorted(files): the names of one directory, by str order
RECURSIVE InsertName(_, _)
InsertName(x, s) ==
  IF s = <<>> THEN <<x>>
  ELSE IF StrLess(x, Head(s)) THEN <<x>> \o s
  ELSE <<Head(s)>> \o InsertName(x, Tail(s))

RECURSIVE SortedNames(_)
SortedNames(s) ==
  IF s = <<>> THEN <<>>
  ELSE InsertName(s[Len(s)], SortedNames(SubSeq(s, 1, Len(s) - 1)))

\* sorted(root.walk()): the (dirpath, dirnames, filenames) tuples, compared by
\* dirpath (dirpaths are distinct, so the comparison never reaches the lists)
RECURSIVE InsertEntry(_, _)
InsertEntry(x, s) ==
  IF s = <<>> THEN <<x>>
  ELSE IF PathLess(x.subdir, Head(s).subdir) THEN <<x>> \o s
  ELSE <<Head(s)>> \o InsertEntry(x, Tail(s))

RECURSIVE SortedEntries(_)
SortedEntries(s) ==
  IF s = <<>> THEN <<>>
  ELSE InsertEntry(s[Len(s)], SortedEntries(SubSeq(s, 1, Len(s) - 1)))

\* str.count(old): non-overlapping occurrences, left to right
RECURSIVE Count(_, _)
Count(s, old) ==
  IF old = <<>> THEN Len(s) + 1
  ELSE IF Len(s) < Len(old) THEN 0
  ELSE IF SubSeq(s, 1, Len(old)) = old
       THEN 1 + Count(SubSeq(s, Len(old) + 1, Len(s)), old)
       ELSE Count(Tail(s), old)

\* str.replace(old, new) with only the first occurrence replaced
RECURSIVE ReplaceFirst(_, _, _)
ReplaceFirst(s, old, new) ==
  IF old = <<>> THEN new \o s
  ELSE IF Len(s) < Len(old) THEN s
  ELSE IF SubSeq(s, 1, Len(old)) = old
       THEN new \o SubSeq(s, Len(old) + 1, Len(s))
       ELSE <<Head(s)>> \o ReplaceFirst(Tail(s), old, new)

\* str.replace(old, new): every non-overlapping occurrence, left to right
RECURSIVE Replace(_, _, _)
Replace(s, old, new) ==
  IF old = <<>>
  THEN IF s = <<>> THEN new
       ELSE new \o <<Head(s)>> \o Replace(Tail(s), old, new)
  ELSE IF Len(s) < Len(old) THEN s
  ELSE IF SubSeq(s, 1, Len(old)) = old
       THEN new \o Replace(SubSeq(s, Len(old) + 1, Len(s)), old, new)
       ELSE <<Head(s)>> \o Replace(Tail(s), old, new)

Contains(s, old) == \E i \in 0..(Len(s) - Len(old)) : SubSeq(s, i + 1, i + Len(old)) = old

EndsWith(s, suffix) ==
  Len(suffix) <= Len(s) /\ SubSeq(s, Len(s) - Len(suffix) + 1, Len(s)) = suffix

Perms(S) == {s \in [1..Cardinality(S) -> S] : \A x \in S : \E i \in DOMAIN s : s[i] = x}

\* ------------------------------------------------------------------- state
VARIABLES
  cwd_ok,            \* os.path.isdir(os.getcwd())
  argv,              \* the parsed command line: file_type, old, new
  root_kind,         \* what pathlib.Path(args.dir).resolve() is: dir, file, missing
  anc,               \* the directories above root, nearest first: what each
                     \* holds under the names .gitignore and .git
  module_ok,         \* import gitignore_parser succeeds
  parse_ok,          \* gitignore_parser.parse_gitignore returns
  matched,           \* the root-relative paths the parsed predicate matches
  orig,              \* the files under root when the run starts
  files,             \* the files under root: path -> [content, mode]
  pc,                \* position in main()
  new,               \* args.new ([given |-> FALSE] is None)
  searched_files, occurrences, failures,
  gitignore_matches, \* the predicate gitignore(root) returned
  ignore_file,       \* the level whose .gitignore the lookup stopped at
  walked,            \* what is left of sorted(root.walk())
  cur,               \* the directory being processed, what is left of sorted(files)
  out,               \* console messages, by kind
  exit_code,         \* -1 while running
  status,            \* per file: pending, skipped, read_failed, decode_failed, searched
  reads, writes,     \* per file: how often it was opened for reading, for writing
  visited,           \* the files the inner loop reached, in order
  dirs_visited       \* the directories the outer loop reached, in order

envVars == <<cwd_ok, argv, root_kind, anc, module_ok, parse_ok, matched, orig>>

counters == <<searched_files, occurrences, failures>>

histVars == <<status, reads, writes, visited, dirs_visited>>

vars == <<envVars, files, pc, new, counters, gitignore_matches, ignore_file,
          walked, cur, out, exit_code, histVars>>

\* ------------------------------------------------------------------ inputs
Contents == StringsUpTo(MaxLen)

Pats == StringsUpTo(MaxPat)

\* replacement strings may also use a character that no file and no search
\* string holds
Replacements == UNION {[1..k -> Alphabet \cup {99}] : k \in 0..MaxPat}

None == [given |-> FALSE, val |-> <<>>]

Some(v) == [given |-> TRUE, val |-> v]

News == {None} \cup {Some(v) : v \in Replacements}

\* what opening, reading and writing a file does: all succeed (rw); open or
\* read raises IOError (unreadable); decoding raises UnicodeDecodeError
\* (binary); open for writing raises IOError (readonly); the write raises
\* IOError after the file was truncated (nospace).  These are the outcomes the
\* handlers at lines 92, 97 and 117 name.
Modes == {"rw", "unreadable", "binary", "readonly", "nospace"}

Kinds == {"none", "file", "dir"}

Levels == [gitignore : Kinds, git : Kinds]

Chains == UNION {[1..k -> Levels] : k \in 0..MaxDepth}

Universe ==
  { <<NameB>>, <<NameAdotB>>, <<NameA, NameB>>, <<NameA, NameA, NameB>>,
    <<NameAdotB, NameB>>, <<DotGitignore>>, <<DotGit>>, <<DotGit, NameA>>,
    <<DotGitignore, NameA>> }

Consistent(T) == \A p, q \in T : p # q => ~IsPrefix(p, q)

Trees == {T \in SUBSET Universe : Cardinality(T) <= MaxFiles /\ Consistent(T)}

Input(c, a, r, ch, m, po, ma, fs) ==
  [cwd_ok |-> c, argv |-> a, root_kind |-> r, anc |-> ch, module_ok |-> m,
   parse_ok |-> po, matched |-> ma, files |-> fs]

Args(ft, o, n) == [file_type |-> ft, old |-> o, new |-> n]

Uniform(T, c) == [p \in T |-> [content |-> c, mode |-> "rw"]]

AB == <<97, 98>>

SmallTree == {<<NameB>>, <<NameAdotB>>, <<NameA, NameB>>}

\* every content against every search and replacement string
TextInputs ==
  { Input(TRUE, Args(<<>>, o, n), "dir", <<>>, TRUE, TRUE, {},
          [p \in {<<NameB>>, <<NameA, NameB>>} |->
             [content |-> IF p = <<NameB>> THEN c1 ELSE c2, mode |-> "rw"]]) :
      o \in Pats, n \in News, c1 \in Contents, c2 \in {<<>>, AB} }

\* every combination of unreadable, undecodable and unwritable files
FaultInputs ==
  { Input(TRUE, Args(<<>>, NameA, n), "dir", <<>>, TRUE, TRUE, {},
          [p \in SmallTree |-> [content |-> IF p = <<NameB>> THEN AB ELSE p[1],
                                mode |-> md[p]]]) :
      n \in {None, Some(<<>>), Some(NameB)}, md \in [SmallTree -> Modes] }

\* every tree of at most MaxFiles files
TreeInputs ==
  { Input(TRUE, Args(<<>>, NameA, n), "dir", <<>>, TRUE, TRUE, {}, Uniform(T, AB)) :
      n \in {None, Some(NameB)}, T \in Trees }

LookupTrees ==
  { {<<NameB>>}, {<<NameB>>, <<DotGitignore>>}, {<<NameB>>, <<DotGit, NameA>>},
    {<<NameB>>, <<DotGitignore>>, <<DotGit>>}, {<<NameB>>, <<DotGitignore, NameA>>} }

\* every arrangement of .gitignore and .git above root
LookupInputs ==
  { Input(TRUE, Args(<<>>, NameA, None), "dir", ch, m, po, ma, Uniform(T, AB)) :
      ch \in Chains, m \in BOOLEAN, po \in BOOLEAN, ma \in {{<<NameB>>}},
      T \in LookupTrees }

RootFiles(r) ==
  IF r = "dir" THEN Uniform(SmallTree, AB)
  ELSE IF r = "file" THEN Uniform({<<>>}, AB)
  ELSE Uniform({}, AB)

\* the command line and the two directory preconditions
ArgInputs ==
  { Input(c, Args(ft, NameA, n), r, <<[gitignore |-> "file", git |-> "none"]>>,
          TRUE, TRUE, ma, RootFiles(r)) :
      c \in BOOLEAN, ft \in {<<>>, NameB}, n \in {None, Some(NameA), Some(NameB)},
      r \in {"dir", "file", "missing"}, ma \in SUBSET SmallTree }

\* the state a run starts in on the input in
Given(in) ==
  /\ cwd_ok = in.cwd_ok
  /\ argv = in.argv
  /\ root_kind = in.root_kind
  /\ anc = in.anc
  /\ module_ok = in.module_ok
  /\ parse_ok = in.parse_ok
  /\ matched = in.matched
  /\ orig = in.files
  /\ files = in.files
  /\ new = in.argv.new
  /\ status = [p \in DOMAIN in.files |-> "pending"]
  /\ reads = [p \in DOMAIN in.files |-> 0]
  /\ writes = [p \in DOMAIN in.files |-> 0]

Init ==
  /\ \/ \E in \in TextInputs : Given(in)
     \/ \E in \in FaultInputs : Given(in)
     \/ \E in \in TreeInputs : Given(in)
     \/ \E in \in LookupInputs : Given(in)
     \/ \E in \in ArgInputs : Given(in)
  /\ pc = "cwd"
  /\ searched_files = 0
  /\ occurrences = 0
  /\ failures = 0
  /\ gitignore_matches = "unset"
  /\ ignore_file = -1
  /\ walked = <<>>
  /\ cur = [subdir |-> <<>>, files |-> <<>>]
  /\ out = <<>>
  /\ exit_code = -1
  /\ visited = <<>>
  /\ dirs_visited = <<>>

\* --------------------------------------------------------------- gitignore()
\* what the directory at the given level (0 is root) holds under a name
KindAt(level, name) ==
  IF level = 0
  THEN IF root_kind # "dir" THEN "none"
       ELSE IF <<name>> \in DOMAIN files THEN "file"
       ELSE IF \E p \in DOMAIN files : Len(p) > 1 /\ p[1] = name THEN "dir"
       ELSE "none"
  ELSE IF name = DotGitignore THEN anc[level].gitignore ELSE anc[level].git

\* (path / ".gitignore").exists() instead of is_file()
IsIgnoreFileIfExists(level) == KindAt(level, DotGitignore) # "none"

\* (path / ".gitignore").is_file()
IsIgnoreFile(level) == KindAt(level, DotGitignore) = "file"

\* (path / ".git").exists()
IsMarker(level) == KindAt(level, DotGit) # "none"

\* the loop over (root / "foo").parents: the level whose .gitignore is handed
\* to parse_gitignore, or -1 when the loop breaks or runs out
RECURSIVE Lookup(_)
Lookup(level) ==
  IF level > Len(anc) THEN -1
  ELSE IF IsIgnoreFile(level) THEN level
  ELSE IF IsMarker(level) THEN -1
  ELSE Lookup(level + 1)

\* the predicate asked about the file's name instead of its relative path
GitignoreMatchesByName(p) == gitignore_matches = "parsed" /\ <<p[Len(p)]>> \in matched

\* gitignore_matches(short_path)
GitignoreMatches(p) == gitignore_matches = "parsed" /\ p \in matched

\* ----------------------------------------------------------------- main()
\* the root taken as given
RootIsDirUnchecked == TRUE

\* root.is_dir()
RootIsDir == root_kind = "dir"

\* args.file_type, as a condition
SuffixFilterOn == argv.file_type # <<>>

\* "if args.new:" instead of "is not None"
ReplacementRequestedIfTruthy == new.given /\ new.val # <<>>

\* args.new is not None
ReplacementRequested == new.given

Exit(msg) ==
  /\ pc' = "aborted"
  /\ exit_code' = 1
  /\ out' = Append(out, msg)

CwdInvalid ==
  /\ pc = "cwd"
  /\ ~cwd_ok
  /\ Exit("abort_cwd")
  /\ UNCHANGED <<envVars, files, new, counters, gitignore_matches, ignore_file,
                 walked, cur, histVars>>

CwdValid ==
  /\ pc = "cwd"
  /\ cwd_ok
  /\ pc' = "args"
  /\ UNCHANGED <<envVars, files, new, counters, gitignore_matches, ignore_file,
                 walked, cur, out, exit_code, histVars>>

ArgsSame ==
  /\ pc = "args"
  /\ new.given /\ argv.old = new.val
  /\ out' = Append(out, "warn_same")
  /\ new' = None
  /\ pc' = "root"
  /\ UNCHANGED <<envVars, files, counters, gitignore_matches, ignore_file,
                 walked, cur, exit_code, histVars>>

ArgsDiffer ==
  /\ pc = "args"
  /\ ~(new.given /\ argv.old = new.val)
  /\ pc' = "root"
  /\ UNCHANGED <<envVars, files, new, counters, gitignore_matches, ignore_file,
                 walked, cur, out, exit_code, histVars>>

RootInvalid ==
  /\ pc = "root"
  /\ ~RootIsDir
  /\ searched_files' = 0 /\ occurrences' = 0 /\ failures' = 0
  /\ Exit("abort_root")
  /\ UNCHANGED <<envVars, files, new, gitignore_matches, ignore_file,
                 walked, cur, histVars>>

RootValid ==
  /\ pc = "root"
  /\ RootIsDir
  /\ searched_files' = 0 /\ occurrences' = 0 /\ failures' = 0
  /\ out' = Append(out, "searching_under")
  /\ pc' = "gitignore"
  /\ UNCHANGED <<envVars, files, new, gitignore_matches, ignore_file,
                 walked, cur, exit_code, histVars>>

GitignoreFrame ==
  UNCHANGED <<envVars, files, new, counters, walked, cur, histVars>>

ImportFails ==
  /\ pc = "gitignore"
  /\ ~module_ok
  /\ out' = Append(out, "warn_import")
  /\ gitignore_matches' = "false"
  /\ pc' = "walk"
  /\ UNCHANGED <<ignore_file, exit_code>>
  /\ GitignoreFrame

IgnoreFileParsed ==
  /\ pc = "gitignore"
  /\ module_ok
  /\ Lookup(0) >= 0
  /\ parse_ok
  /\ ignore_file' = Lookup(0)
  /\ gitignore_matches' = "parsed"
  /\ pc' = "walk"
  /\ UNCHANGED <<out, exit_code>>
  /\ GitignoreFrame

\* parse_gitignore is called in the else: branch of the try, so what it
\* raises is not caught
IgnoreFileParseRaises ==
  /\ pc = "gitignore"
  /\ module_ok
  /\ Lookup(0) >= 0
  /\ ~parse_ok
  /\ ignore_file' = Lookup(0)
  /\ pc' = "crashed"
  /\ exit_code' = 1
  /\ out' = Append(out, "traceback")
  /\ UNCHANGED gitignore_matches
  /\ GitignoreFrame

NoIgnoreFile ==
  /\ pc = "gitignore"
  /\ module_ok
  /\ Lookup(0) < 0
  /\ gitignore_matches' = "false"
  /\ pc' = "walk"
  /\ UNCHANGED <<ignore_file, out, exit_code>>
  /\ GitignoreFrame

\* ------------------------------------------------------------ the traversal
\* the directories root.walk() yields: root and every directory below it
DirsOf ==
  IF root_kind = "dir"
  THEN {<<>>} \cup UNION {{SubSeq(p, 1, k) : k \in 0..(Len(p) - 1)} : p \in DOMAIN files}
  ELSE {}

\* the filenames of one directory
FileNamesIn(d) ==
  {p[Len(p)] : p \in {q \in DOMAIN files : Len(q) = Len(d) + 1 /\ SubSeq(q, 1, Len(d)) = d}}

\* what root.walk() may yield for the directories taken in the order ds: the
\* file system lists the files of each directory in any order
RECURSIVE Enumerations(_)
Enumerations(ds) ==
  IF ds = <<>> THEN {<<>>}
  ELSE {<<[subdir |-> Head(ds), files |-> fo]>> \o rest :
          fo \in Perms(FileNamesIn(Head(ds))), rest \in Enumerations(Tail(ds))}

Walk ==
  /\ pc = "walk"
  /\ \E ds \in Perms(DirsOf) : \E e \in Enumerations(ds) :
       walked' = SortedEntries(e)
  /\ pc' = "loop"
  /\ UNCHANGED <<envVars, files, new, counters, gitignore_matches, ignore_file,
                 cur, out, exit_code, histVars>>

\* for subdir, _, files in sorted(root.walk()): for file in sorted(files):
EnterDir ==
  /\ pc = "loop"
  /\ cur.files = <<>>
  /\ walked # <<>>
  /\ cur' = [subdir |-> Head(walked).subdir, files |-> SortedNames(Head(walked).files)]
  /\ walked' = Tail(walked)
  /\ dirs_visited' = Append(dirs_visited, Head(walked).subdir)
  /\ UNCHANGED <<envVars, files, pc, new, counters, gitignore_matches, ignore_file,
                 out, exit_code, status, reads, writes, visited>>

\* short_path of the file the inner loop is at
Path == Append(cur.subdir, Head(cur.files))

AtFile == pc = "loop" /\ cur.files # <<>>

NextFile ==
  /\ cur' = [cur EXCEPT !.files = Tail(@)]
  /\ visited' = Append(visited, Path)
  /\ UNCHANGED <<envVars, new, gitignore_matches, ignore_file, walked, dirs_visited>>

Readable(p) == files[p].mode \in {"rw", "readonly", "nospace"}

SkipIgnored ==
  /\ AtFile
  /\ GitignoreMatches(Path)
  /\ status' = [status EXCEPT ![Path] = "skipped"]
  /\ NextFile
  /\ UNCHANGED <<files, pc, counters, out, exit_code, reads, writes>>

\* path is a pathlib.Path, which has no endswith: evaluating the suffix test
\* raises AttributeError, which nothing catches
SuffixTestRaises ==
  /\ AtFile
  /\ ~GitignoreMatches(Path)
  /\ SuffixFilterOn
  /\ pc' = "crashed"
  /\ exit_code' = 1
  /\ out' = Append(out, "traceback")
  /\ NextFile
  /\ UNCHANGED <<files, counters, status, reads, writes>>

Eligible == AtFile /\ ~GitignoreMatches(Path) /\ ~SuffixFilterOn

\* the same, with the exception not caught
ReadFailsUncaught ==
  /\ Eligible
  /\ files[Path].mode = "unreadable"
  /\ reads' = [reads EXCEPT ![Path] = @ + 1]
  /\ pc' = "crashed"
  /\ exit_code' = 1
  /\ out' = Append(out, "traceback")
  /\ NextFile
  /\ UNCHANGED <<files, counters, status, writes>>

\* except IOError
ReadFails ==
  /\ Eligible
  /\ files[Path].mode = "unreadable"
  /\ reads' = [reads EXCEPT ![Path] = @ + 1]
  /\ out' = Append(out, "failed_read")
  /\ failures' = failures + 1
  /\ status' = [status EXCEPT ![Path] = "read_failed"]
  /\ NextFile
  /\ UNCHANGED <<files, pc, searched_files, occurrences, exit_code, writes>>

\* except UnicodeDecodeError
DecodeFails ==
  /\ Eligible
  /\ files[Path].mode = "binary"
  /\ reads' = [reads EXCEPT ![Path] = @ + 1]
  /\ out' = Append(out, "failed_decode")
  /\ failures' = failures + 1
  /\ status' = [status EXCEPT ![Path] = "decode_failed"]
  /\ NextFile
  /\ UNCHANGED <<files, pc, searched_files, occurrences, exit_code, writes>>

\* contents = f.read(); count = contents.count(args.old); the two counters
Searched(count) ==
  /\ reads' = [reads EXCEPT ![Path] = @ + 1]
  /\ searched_files' = searched_files + 1
  /\ occurrences' = occurrences + count
  /\ status' = [status EXCEPT ![Path] = "searched"]
  /\ NextFile
  /\ UNCHANGED <<pc, exit_code>>

NoMatch ==
  /\ Eligible
  /\ Readable(Path)
  /\ Count(files[Path].content, argv.old) = 0
  /\ Searched(0)
  /\ UNCHANGED <<files, failures, out, writes>>

Found ==
  /\ Eligible
  /\ Readable(Path)
  /\ Count(files[Path].content, argv.old) > 0
  /\ ~ReplacementRequested
  /\ Searched(Count(files[Path].content, argv.old))
  /\ out' = Append(out, "found")
  /\ UNCHANGED <<files, failures, writes>>

Modified == Replace(files[Path].content, argv.old, new.val)

Replacing ==
  /\ Eligible
  /\ Readable(Path)
  /\ Count(files[Path].content, argv.old) > 0
  /\ ReplacementRequested
  /\ Searched(Count(files[Path].content, argv.old))
  /\ writes' = [writes EXCEPT ![Path] = @ + 1]

Written ==
  /\ Replacing
  /\ files[Path].mode = "rw"
  /\ files' = [files EXCEPT ![Path].content = Modified]
  /\ out' = out \o <<"found", "modified">>
  /\ UNCHANGED failures

\* the same, with the failure not counted
WriteOpenFailsUncounted ==
  /\ Replacing
  /\ files[Path].mode = "readonly"
  /\ out' = out \o <<"found", "failed_write">>
  /\ UNCHANGED <<files, failures>>

\* open(path, "w") raises: the file keeps its content
WriteOpenFails ==
  /\ Replacing
  /\ files[Path].mode = "readonly"
  /\ out' = out \o <<"found", "failed_write">>
  /\ failures' = failures + 1
  /\ UNCHANGED files

\* open(path, "w") has truncated the file and f.write or the closing flush
\* raises: the file is left with some proper prefix of the new content
WriteFails ==
  /\ Replacing
  /\ files[Path].mode = "nospace"
  /\ \E k \in 0..(IF Modified = <<>> THEN 0 ELSE Len(Modified) - 1) :
       files' = [files EXCEPT ![Path].content = SubSeq(Modified, 1, k)]
  /\ out' = out \o <<"found", "failed_write">>
  /\ failures' = failures + 1

Summary ==
  /\ pc = "loop"
  /\ cur.files = <<>>
  /\ walked = <<>>
  /\ out' = out \o <<IF new.given THEN "summary_replaced" ELSE "summary_found">>
                \o (IF failures > 0 THEN <<"failures">> ELSE <<>>)
  /\ pc' = "done"
  /\ exit_code' = 0
  /\ UNCHANGED <<envVars, files, new, counters, gitignore_matches, ignore_file,
                 walked, cur, histVars>>

Next ==
  \/ CwdInvalid \/ CwdValid
  \/ ArgsSame \/ ArgsDiffer
  \/ RootInvalid \/ RootValid
  \/ ImportFails \/ IgnoreFileParsed \/ IgnoreFileParseRaises \/ NoIgnoreFile
  \/ Walk \/ EnterDir
  \/ SkipIgnored \/ SuffixTestRaises
  \/ ReadFails \/ DecodeFails
  \/ NoMatch \/ Found
  \/ Written \/ WriteOpenFails \/ WriteFails
  \/ Summary

Spec == Init /\ [][Next]_vars

\* --------------------------------------------------------------- properties
Failed == {"read_failed", "decode_failed"}

Started == pc \notin {"cwd", "args"}

\* the predicate the run holds matches the path
Ignored(p) == gitignore_matches = "parsed" /\ p \in matched

CountMsg(s, m) == Cardinality({i \in 1..Len(s) : s[i] = m})

Before(p, q) ==
  \E i, j \in 1..Len(visited) : i < j /\ visited[i] = p /\ visited[j] = q

C2_WrittenIff ==
  /\ \A p \in DOMAIN files :
       /\ writes[p] <= 1
       /\ (writes[p] = 1) <=>
            (/\ status[p] = "searched"
             /\ Count(orig[p].content, argv.old) > 0
             /\ argv.new.given
             /\ argv.new.val # argv.old)
       /\ (writes[p] = 0 => files[p] = orig[p])
  /\ (Started /\ cwd_ok /\ argv.new.given /\ argv.new.val = argv.old)
       => (CountMsg(out, "warn_same") = 1 /\ ~new.given)

C2_Witness ==
  /\ pc = "done"
  /\ argv.new = Some(<<>>)
  /\ \E p, q \in DOMAIN files :
       /\ writes[p] = 1 /\ files[p].content # orig[p].content
       /\ writes[q] = 0 /\ status[q] = "searched"

\* the file the loop is at is one whose read, decoding or write will fail
AtFailingFile ==
  /\ pc = "loop" /\ cur.files # <<>>
  /\ ~Ignored(Path)
  /\ argv.file_type = <<>>
  /\ \/ files[Path].mode \in {"unreadable", "binary"}
     \/ /\ files[Path].mode \in {"readonly", "nospace"}
        /\ Count(files[Path].content, argv.old) > 0
        /\ new.given

HasSuffix(p) == EndsWith(<<47>> \o Join(p), <<46>> \o argv.file_type)

\* C4: with a suffix filter, a file the predicate does not match is skipped
\* unread when its path lacks the suffix and is read when it has it, and the
\* run goes on
C4_SuffixFilter ==
  argv.file_type # <<>> =>
    \A p \in Range(visited) :
      ~Ignored(p) =>
        /\ pc # "crashed"
        /\ HasSuffix(p) => reads[p] = 1
        /\ ~HasSuffix(p) => (reads[p] = 0 /\ status[p] = "skipped")

\* C5: a file the predicate matches is never opened, keeps its content, and
\* the step that passes it leaves the three counters alone
C5_IgnoredUntouched ==
  /\ [](\A p \in DOMAIN files :
          Ignored(p) =>
            /\ reads[p] = 0 /\ writes[p] = 0
            /\ files[p] = orig[p]
            /\ status[p] \in {"pending", "skipped"})
  /\ [][(pc = "loop" /\ cur.files # <<>> /\ Ignored(Path) /\ visited' # visited)
          => /\ UNCHANGED <<counters, files>>
             /\ pc' = "loop"]_vars

C5_Witness ==
  /\ pc = "done"
  /\ new.given
  /\ \E p, q \in DOMAIN files :
       /\ Ignored(p) /\ status[p] = "skipped" /\ Len(p) = 2
       /\ Count(files[p].content, argv.old) > 0
       /\ ~Ignored(q) /\ writes[q] = 1

\* the names in S in ascending order
RECURSIVE Ascending(_)
Ascending(S) ==
  IF S = {} THEN <<>>
  ELSE LET m == CHOOSE x \in S : \A y \in S \ {x} : StrLess(x, y)
       IN <<m>> \o Ascending(S \ {m})

SubdirNames(d) ==
  {p[Len(d) + 1] : p \in {q \in DOMAIN orig : Len(q) > Len(d) + 1 /\ SubSeq(q, 1, Len(d)) = d}}

OwnFileNames(d) ==
  {p[Len(p)] : p \in {q \in DOMAIN orig : Len(q) = Len(d) + 1 /\ SubSeq(q, 1, Len(d)) = d}}

\* recursive descent from d: its files by name, then its subdirectories by name
RECURSIVE DescentFiles(_), DescentFilesOver(_, _)
DescentFiles(d) ==
  LET ns == Ascending(OwnFileNames(d))
  IN [i \in 1..Len(ns) |-> Append(d, ns[i])] \o DescentFilesOver(d, Ascending(SubdirNames(d)))

DescentFilesOver(d, ns) ==
  IF ns = <<>> THEN <<>>
  ELSE DescentFiles(Append(d, Head(ns))) \o DescentFilesOver(d, Tail(ns))

RECURSIVE DescentDirs(_), DescentDirsOver(_, _)
DescentDirs(d) == <<d>> \o DescentDirsOver(d, Ascending(SubdirNames(d)))

DescentDirsOver(d, ns) ==
  IF ns = <<>> THEN <<>>
  ELSE DescentDirs(Append(d, Head(ns))) \o DescentDirsOver(d, Tail(ns))

\* C6: whatever order the file system lists entries in, the loops reach the
\* directories and the files in the order of the recursive descent by name,
\* which the tree alone determines, and a finished run has reached them all
C6_SortedDescent ==
  root_kind = "dir" =>
    /\ IsPrefix(visited, DescentFiles(<<>>))
    /\ IsPrefix(dirs_visited, DescentDirs(<<>>))
    /\ pc = "done" => (visited = DescentFiles(<<>>) /\ dirs_visited = DescentDirs(<<>>))

C6_Witness ==
  /\ pc = "done"
  /\ {<<NameA, NameB>>, <<NameA, NameA, NameB>>, <<NameAdotB, NameB>>} = DOMAIN files
  /\ visited = << <<NameA, NameB>>, <<NameA, NameA, NameB>>, <<NameAdotB, NameB>> >>

\* C7: when root is not a directory the run ends in an abort with exit status
\* 1 and a message, the ignore predicate is never built, nothing is walked,
\* read or written and no summary is printed
C7_RootNotDir ==
  root_kind # "dir" =>
    /\ pc \in {"cwd", "args", "root", "aborted"}
    /\ pc = "aborted" =>
         (exit_code = 1 /\ out[Len(out)] \in {"abort_cwd", "abort_root"})
    /\ gitignore_matches = "unset" /\ ignore_file = -1
    /\ walked = <<>> /\ visited = <<>> /\ dirs_visited = <<>>
    /\ files = orig
    /\ \A p \in DOMAIN files : reads[p] = 0 /\ writes[p] = 0
    /\ Range(out) \cap {"summary_found", "summary_replaced", "searching_under"} = {}

C7_Witness ==
  /\ pc = "aborted" /\ root_kind = "file" /\ exit_code = 1
  /\ out[Len(out)] = "abort_root"
  /\ Count(files[<<>>].content, argv.old) > 0 /\ new.given

\* C8: building the predicate never ends the run; without the module, or when
\* parsing the file that was found fails, there is a warning and the
\* predicate matches nothing
C8_PredicateNeverAborts ==
  (root_kind = "dir" /\ pc \notin {"cwd", "args", "root", "gitignore", "aborted"}) =>
    /\ gitignore_matches # "unset"
    /\ (~module_ok \/ (ignore_file >= 0 /\ ~parse_ok)) =>
         (gitignore_matches = "false" /\ CountMsg(out, "warn_import") = 1)

\* the nearest level holding a regular .gitignore, when no nearer level holds
\* a .git entry; -1 otherwise
NearestIgnoreFile ==
  LET S == {i \in 0..Len(anc) : KindAt(i, DotGitignore) = "file"}
  IN IF S = {} THEN -1
     ELSE LET n == CHOOSE i \in S : \A j \in S : i <= j
          IN IF \E j \in 0..(n - 1) : KindAt(j, DotGit) # "none" THEN -1 ELSE n

\* C9: with the module present, the lookup settles on the nearest .gitignore
\* file at or above root unless a nearer directory holds .git, and otherwise
\* yields the predicate that matches nothing
C9_NearestIgnoreFile ==
  (module_ok /\ root_kind = "dir"
     /\ pc \notin {"cwd", "args", "root", "gitignore", "aborted"}) =>
    /\ ignore_file = NearestIgnoreFile
    /\ parse_ok =>
         gitignore_matches = (IF NearestIgnoreFile >= 0 THEN "parsed" ELSE "false")

C9_Witness ==
  /\ pc = "done" /\ module_ok
  /\ Len(anc) = 2
  /\ anc[1].gitignore = "dir" /\ anc[1].git = "none"
  /\ anc[2].gitignore = "file" /\ anc[2].git # "none"
  /\ KindAt(0, DotGitignore) = "dir"
  /\ ignore_file = 2 /\ gitignore_matches = "parsed"

RECURSIVE SumCounts(_)
SumCounts(S) ==
  IF S = {} THEN 0
  ELSE LET p == CHOOSE x \in S : TRUE
       IN Count(orig[p].content, argv.old) + SumCounts(S \ {p})

WithStatus(S) == {p \in DOMAIN files : status[p] \in S}

\* C10: the counters never decrease; files searched is the number of files
\* read, occurrences the sum of their counts, failures the read and decode
\* failures plus the write failures; at the summary every file is exactly one
\* of skipped, failed or searched
C10_Counters ==
  /\ [](/\ searched_files = Cardinality(WithStatus({"searched"}))
        /\ occurrences = SumCounts(WithStatus({"searched"}))
        /\ failures = Cardinality(WithStatus(Failed)) + CountMsg(out, "failed_write")
        /\ CountMsg(out, "failed_write") =
             Cardinality({p \in DOMAIN files : writes[p] = 1 /\ files[p].mode # "rw"})
        /\ pc = "done" =>
             /\ Range(visited) = DOMAIN files
             /\ \A p \in DOMAIN files : status[p] \in {"skipped", "searched"} \cup Failed
             /\ CountMsg(out, "summary_replaced") = (IF new.given THEN 1 ELSE 0)
             /\ CountMsg(out, "failures") = (IF failures > 0 THEN 1 ELSE 0))
  /\ [][/\ searched_files' >= searched_files
        /\ occurrences' >= occurrences
        /\ failures' >= failures]_vars

C10_Witness ==
  /\ pc = "done"
  /\ new.given
  /\ searched_files = 2 /\ failures = 2 /\ occurrences >= 2
  /\ \E p, q \in DOMAIN files :
       /\ status[p] \in Failed
       /\ writes[q] = 1 /\ files[q].mode = "readonly"
====
